---------------------------- MODULE Spec2Model ----------------------------
(***************************************************************************)
(* Model of the outbound "freedom" configuration builder of                *)
(* infra/conf/freedom.go (FreedomConfig.Build and ParseNoise) and of the   *)
(* start-up of main/main.go, which picks the configuration file and edits  *)
(* its outbounds before Xray runs.                                         *)
(*                                                                         *)
(* Go strings are TLA+ strings (sequences of one-character strings), a nil *)
(* pointer is the empty tuple <<>> and a non-nil pointer to v is <<v>>, a  *)
(* nil error is the empty string and a non-nil error is its message.       *)
(***************************************************************************)
EXTENDS Integers, Sequences, FiniteSets, TLC

VARIABLES
    c,      \* the receiver *FreedomConfig (its noises are reached by pointer)
    orig,   \* the value c had when it was constructed
    rets,   \* the (config, err) pairs returned by the successive Build calls
    args,           \* os.Args of the running process of main
    files,          \* the files of the working directory
    pc,             \* the position of main
    configFilePath, \* the local variable configFilePath of main
    runs,           \* how many times the program has been started
    args0,          \* the command line the program is started with
    files0          \* the files of the working directory at the first start

buildVars == <<c, orig, rets>>
mainVars == <<args, files, pc, configFilePath, runs, args0, files0>>
vars == <<buildVars, mainVars>>

---------------------------------------------------------------------------
(* Bounds                                                                  *)

MaxCalls == 2     \* number of successive Build calls on the same object
MaxStrLen == 3    \* length of the exhaustively enumerated range strings
MaxNoises == 2    \* length of the exhaustively enumerated noises lists
MaxArgs == 2      \* number of exhaustively enumerated command-line arguments
MaxOutbounds == 2 \* length of the exhaustively enumerated outbounds arrays
MaxRuns == 2      \* number of successive starts of the program

---------------------------------------------------------------------------
(* Strings                                                                 *)

NoError == ""

Digits == {"0", "1", "2", "3", "4", "5", "6", "7", "8", "9"}

DigitVal(ch) ==
    CASE ch = "0" -> 0 [] ch = "1" -> 1 [] ch = "2" -> 2 [] ch = "3" -> 3
      [] ch = "4" -> 4 [] ch = "5" -> 5 [] ch = "6" -> 6 [] ch = "7" -> 7
      [] ch = "8" -> 8 [] ch = "9" -> 9

UpperChars == "ABCDEFGHIJKLMNOPQRSTUVWXYZ"
LowerChars == "abcdefghijklmnopqrstuvwxyz"

\* 1-based position of the first ch in s, 0 when there is none
RECURSIVE IndexFrom(_, _, _)
IndexFrom(s, ch, i) ==
    IF i > Len(s) THEN 0
    ELSE IF SubSeq(s, i, i) = ch THEN i
    ELSE IndexFrom(s, ch, i + 1)

IndexByte(s, ch) == IndexFrom(s, ch, 1)

RECURSIVE LastIndexFrom(_, _, _)
LastIndexFrom(s, ch, i) ==
    IF i < 1 THEN 0
    ELSE IF SubSeq(s, i, i) = ch THEN i
    ELSE LastIndexFrom(s, ch, i - 1)

LastIndexByte(s, ch) == LastIndexFrom(s, ch, Len(s))

\* unicode.ToLower on one ASCII character
LowerOf(ch) ==
    LET i == IndexByte(UpperChars, ch)
    IN  IF i = 0 THEN ch ELSE SubSeq(LowerChars, i, i)

\* strings.ToLower
RECURSIVE ToLower(_)
ToLower(s) ==
    IF s = "" THEN "" ELSE LowerOf(Head(s)) \o ToLower(Tail(s))

\* strings.Split(s, sep) for a one-character separator: the tuple of the
\* substrings between the separators, <<s>> when s holds no separator
RECURSIVE Split(_, _)
Split(s, sep) ==
    LET i == IndexByte(s, sep)
    IN  IF i = 0 THEN <<s>>
        ELSE <<SubSeq(s, 1, i - 1)>> \o Split(SubSeq(s, i + 1, Len(s)), sep)

RECURSIVE DecimalValue(_)
DecimalValue(s) ==
    IF s = "" THEN 0
    ELSE 10 * DecimalValue(SubSeq(s, 1, Len(s) - 1))
            + DigitVal(SubSeq(s, Len(s), Len(s)))

AllDigits(s) == \A i \in 1..Len(s) : SubSeq(s, i, i) \in Digits

\* strconv.ParseUint(s, 10, 64): no sign, no underscore, at least one digit.
\* The value of a syntax error is 0.  (The out-of-range error needs a token
\* of 20 digits and more, longer than any token enumerated here.)
ParseUint(s) ==
    IF s # "" /\ AllDigits(s)
    THEN [val |-> DecimalValue(s), err |-> NoError]
    ELSE [val |-> 0, err |-> "strconv.ParseUint: invalid syntax"]

---------------------------------------------------------------------------
(* FreedomConfig.Build: the fragment section                               *)

\* The one or two ParseUint calls on the parts of a split range string
ParseFromTo(parts) ==
    IF Len(parts) = 2
    THEN [From |-> ParseUint(parts[1]).val, To |-> ParseUint(parts[2]).val,
          err |-> ParseUint(parts[1]).err, err2 |-> ParseUint(parts[2]).err]
    ELSE [From |-> ParseUint(parts[1]).val, To |-> ParseUint(parts[1]).val,
          err |-> ParseUint(parts[1]).err, err2 |-> NoError]

\* strings.Split(s, "-") and the ParseUint calls on its parts
SplitFromTo(s) == ParseFromTo(Split(s, "-"))

\* PacketsRange without the check "PacketsFrom can't be 0"
PacketsRange_ZeroAllowed(p) ==
    LET failed(e) == [From |-> 0, To |-> 0, FakeHost |-> FALSE, err |-> e]
    IN  IF p.err # NoError THEN failed("Invalid PacketsFrom")
        ELSE IF p.err2 # NoError THEN failed("Invalid PacketsTo")
        ELSE IF p.From > p.To
        THEN [From |-> p.To, To |-> p.From, FakeHost |-> FALSE, err |-> NoError]
        ELSE [From |-> p.From, To |-> p.To, FakeHost |-> FALSE, err |-> NoError]

\* The default case of the switch on fragment.packets, p being the parsed
\* packetsFromTo: the error checks, the swap and the zero check
PacketsRange(p) ==
    LET failed(e) == [From |-> 0, To |-> 0, FakeHost |-> FALSE, err |-> e]
        from == IF p.From > p.To THEN p.To ELSE p.From
        to == IF p.From > p.To THEN p.From ELSE p.To
    IN  IF p.err # NoError THEN failed("Invalid PacketsFrom")
        ELSE IF p.err2 # NoError THEN failed("Invalid PacketsTo")
        ELSE IF from = 0 THEN failed("PacketsFrom can't be 0")
        ELSE [From |-> from, To |-> to, FakeHost |-> FALSE, err |-> NoError]

\* BuildPackets with "tlshello" given the bounds and the flag of "fakehost"
BuildPackets_HelloAsFakeHost(Packets) ==
    LET mode == ToLower(Packets)
    IN  IF mode \in {"tlshello", "fakehost"}
        THEN [From |-> 1, To |-> 1, FakeHost |-> TRUE, err |-> NoError]
        ELSE IF mode = ""
        THEN [From |-> 0, To |-> 0, FakeHost |-> FALSE, err |-> NoError]
        ELSE PacketsRange(SplitFromTo(Packets))

\* The switch on fragment.packets
BuildPackets(Packets) ==
    LET mode == ToLower(Packets)
    IN  IF mode = "tlshello"
        THEN [From |-> 0, To |-> 1, FakeHost |-> FALSE, err |-> NoError]
        ELSE IF mode = "fakehost"
        THEN [From |-> 1, To |-> 1, FakeHost |-> TRUE, err |-> NoError]
        ELSE IF mode = ""
        THEN [From |-> 0, To |-> 0, FakeHost |-> FALSE, err |-> NoError]
        ELSE PacketsRange(SplitFromTo(Packets))

\* LengthRange without the swap of a reversed range
LengthRange_NoSwap(p) ==
    LET failed(e) == [Min |-> 0, Max |-> 0, err |-> e]
    IN  IF p.err # NoError THEN failed("Invalid LengthMin")
        ELSE IF p.err2 # NoError THEN failed("Invalid LengthMax")
        ELSE IF p.From = 0 THEN failed("LengthMin can't be 0")
        ELSE [Min |-> p.From, Max |-> p.To, err |-> NoError]

\* LengthRange with the zero check made before the swap
LengthRange_ZeroBeforeSwap(p) ==
    LET failed(e) == [Min |-> 0, Max |-> 0, err |-> e]
    IN  IF p.err # NoError THEN failed("Invalid LengthMin")
        ELSE IF p.err2 # NoError THEN failed("Invalid LengthMax")
        ELSE IF p.From = 0 THEN failed("LengthMin can't be 0")
        ELSE IF p.From > p.To THEN [Min |-> p.To, Max |-> p.From, err |-> NoError]
        ELSE [Min |-> p.From, Max |-> p.To, err |-> NoError]

\* The block on fragment.length after the split, p being the parsed
\* lengthMinMax: the error checks, the swap and the zero check
LengthRange(p) ==
    LET failed(e) == [Min |-> 0, Max |-> 0, err |-> e]
        min == IF p.From > p.To THEN p.To ELSE p.From
        max == IF p.From > p.To THEN p.From ELSE p.To
    IN  IF p.err # NoError THEN failed("Invalid LengthMin")
        ELSE IF p.err2 # NoError THEN failed("Invalid LengthMax")
        ELSE IF min = 0 THEN failed("LengthMin can't be 0")
        ELSE [Min |-> min, Max |-> max, err |-> NoError]

\* The block on fragment.length
BuildLength(Length) ==
    IF Length = "" THEN [Min |-> 0, Max |-> 0, err |-> "Length can't be empty"]
    ELSE LengthRange(SplitFromTo(Length))

\* The block on fragment.interval after the split, p being the parsed
\* intervalMinMax: the error checks and the swap
IntervalRange(p) ==
    LET failed(e) == [Min |-> 0, Max |-> 0, err |-> e]
        min == IF p.From > p.To THEN p.To ELSE p.From
        max == IF p.From > p.To THEN p.From ELSE p.To
    IN  IF p.err # NoError THEN failed("Invalid IntervalMin")
        ELSE IF p.err2 # NoError THEN failed("Invalid IntervalMax")
        ELSE [Min |-> min, Max |-> max, err |-> NoError]

\* The block on fragment.interval
BuildInterval(Interval) ==
    IF Interval = "" THEN [Min |-> 0, Max |-> 0, err |-> "Interval can't be empty"]
    ELSE IntervalRange(SplitFromTo(Interval))

OrDefault(s, def) == IF s = "" THEN def ELSE s

\* FragmentSteps with the length validated before the packets
FragmentSteps_LengthFirst(f, pk, ln, iv) ==
    IF ln.err # NoError THEN [val |-> <<>>, err |-> ln.err]
    ELSE IF pk.err # NoError THEN [val |-> <<>>, err |-> pk.err]
    ELSE IF iv.err # NoError THEN [val |-> <<>>, err |-> iv.err]
    ELSE [val |-> << [PacketsFrom |-> pk.From, PacketsTo |-> pk.To,
                      LengthMin |-> ln.Min, LengthMax |-> ln.Max,
                      IntervalMin |-> iv.Min, IntervalMax |-> iv.Max,
                      FakeHost |-> pk.FakeHost,
                      Host1Header |-> OrDefault(f.Host1_header, "Host : "),
                      Host1Domain |-> OrDefault(f.Host1_domain, "cloudflare.com"),
                      Host2Header |-> OrDefault(f.Host2_header, "Host:   "),
                      Host2Domain |-> OrDefault(f.Host2_domain, "cloudflare.com")] >>,
          err |-> NoError]

\* The order of the blocks of "if c.Fragment != nil", pk, ln and iv being
\* the outcomes of the packets, length and interval blocks: the first error
\* returns, the host fields are filled last
FragmentSteps(f, pk, ln, iv) ==
    IF pk.err # NoError THEN [val |-> <<>>, err |-> pk.err]
    ELSE IF ln.err # NoError THEN [val |-> <<>>, err |-> ln.err]
    ELSE IF iv.err # NoError THEN [val |-> <<>>, err |-> iv.err]
    ELSE [val |-> << [PacketsFrom |-> pk.From, PacketsTo |-> pk.To,
                      LengthMin |-> ln.Min, LengthMax |-> ln.Max,
                      IntervalMin |-> iv.Min, IntervalMax |-> iv.Max,
                      FakeHost |-> pk.FakeHost,
                      Host1Header |-> OrDefault(f.Host1_header, "Host : "),
                      Host1Domain |-> OrDefault(f.Host1_domain, "cloudflare.com"),
                      Host2Header |-> OrDefault(f.Host2_header, "Host:   "),
                      Host2Domain |-> OrDefault(f.Host2_domain, "cloudflare.com")] >>,
          err |-> NoError]

\* The body of "if c.Fragment != nil": the fragment of the plan, or the
\* first error
BuildFragment(f) ==
    FragmentSteps(f, BuildPackets(f.Packets), BuildLength(f.Length),
                  BuildInterval(f.Interval))

---------------------------------------------------------------------------
(* ParseNoise                                                              *)

SpaceChars == {" ", "\t", "\n", "\r", "\f"}

RECURSIVE TrimLeft(_)
TrimLeft(s) ==
    IF s # "" /\ Head(s) \in SpaceChars THEN TrimLeft(Tail(s)) ELSE s

RECURSIVE TrimRight(_)
TrimRight(s) ==
    IF s # "" /\ SubSeq(s, Len(s), Len(s)) \in SpaceChars
    THEN TrimRight(SubSeq(s, 1, Len(s) - 1))
    ELSE s

\* TrimSpace that cuts at most one space at each end
TrimSpace_Once(s) ==
    LET t == IF s # "" /\ Head(s) \in SpaceChars THEN Tail(s) ELSE s
    IN  IF t # "" /\ SubSeq(t, Len(t), Len(t)) \in SpaceChars
        THEN SubSeq(t, 1, Len(t) - 1)
        ELSE t

\* strings.TrimSpace
TrimSpace(s) == TrimRight(TrimLeft(s))

\* the ASCII characters 32..95 and 97..126 (a TLA+ string cannot hold 96)
AsciiLow == " !\"#$%&'()*+,-./0123456789:;<=>?@ABCDEFGHIJKLMNOPQRSTUVWXYZ[\\]^_"
AsciiHigh == "abcdefghijklmnopqrstuvwxyz{|}~"

\* the byte of an ASCII character
ByteOf(ch) ==
    CASE ch = "\t" -> 9 [] ch = "\n" -> 10 [] ch = "\f" -> 12 [] ch = "\r" -> 13
      [] IndexByte(AsciiLow, ch) # 0 -> 31 + IndexByte(AsciiLow, ch)
      [] IndexByte(AsciiHigh, ch) # 0 -> 96 + IndexByte(AsciiHigh, ch)

\* []byte(s)
RECURSIVE Bytes(_)
Bytes(s) == IF s = "" THEN <<>> ELSE <<ByteOf(Head(s))>> \o Bytes(Tail(s))

HexChars == "0123456789abcdef"

IsHex(ch) == IndexByte(HexChars, LowerOf(ch)) # 0
HexVal(ch) == IndexByte(HexChars, LowerOf(ch)) - 1

RECURSIVE HexBytes(_)
HexBytes(s) ==
    IF Len(s) < 2 THEN <<>>
    ELSE <<16 * HexVal(SubSeq(s, 1, 1)) + HexVal(SubSeq(s, 2, 2))>>
            \o HexBytes(SubSeq(s, 3, Len(s)))

\* hex.DecodeString: an even number of hexadecimal digits of either case
HexDecodeString(s) ==
    IF (\A i \in 1..Len(s) : IsHex(SubSeq(s, i, i))) /\ Len(s) % 2 = 0
    THEN [val |-> HexBytes(s), err |-> NoError]
    ELSE [val |-> <<>>, err |-> "encoding/hex: invalid input"]

\* Replace that rewrites the alphabet and keeps the padding
RECURSIVE Replace_KeepPadding(_)
Replace_KeepPadding(s) ==
    IF s = "" THEN ""
    ELSE (CASE Head(s) = "+" -> "-"
            [] Head(s) = "/" -> "_"
            [] OTHER -> Head(s)) \o Replace_KeepPadding(Tail(s))

\* strings.NewReplacer("+", "-", "/", "_", "=", "").Replace
RECURSIVE Replace(_)
Replace(s) ==
    IF s = "" THEN ""
    ELSE (CASE Head(s) = "+" -> "-"
            [] Head(s) = "/" -> "_"
            [] Head(s) = "=" -> ""
            [] OTHER -> Head(s)) \o Replace(Tail(s))

URLAlphabet ==
    "ABCDEFGHIJKLMNOPQRSTUVWXYZabcdefghijklmnopqrstuvwxyz0123456789-_"

\* the decoder skips carriage returns and line feeds
RECURSIVE DropNewlines(_)
DropNewlines(s) ==
    IF s = "" THEN ""
    ELSE (IF Head(s) \in {"\r", "\n"} THEN "" ELSE Head(s)) \o DropNewlines(Tail(s))

SextetOf(s, i) == IndexByte(URLAlphabet, SubSeq(s, i, i)) - 1

\* the bytes of a string of sextets: 4 characters give 3 bytes, a tail of 3
\* gives 2 bytes and a tail of 2 gives 1 byte (the spare bits are dropped)
RECURSIVE SextetBytes(_)
SextetBytes(s) ==
    IF Len(s) >= 4
    THEN LET v == 262144 * SextetOf(s, 1) + 4096 * SextetOf(s, 2)
                    + 64 * SextetOf(s, 3) + SextetOf(s, 4)
         IN  <<v \div 65536, (v \div 256) % 256, v % 256>>
                \o SextetBytes(SubSeq(s, 5, Len(s)))
    ELSE IF Len(s) = 3
    THEN LET v == 4096 * SextetOf(s, 1) + 64 * SextetOf(s, 2) + SextetOf(s, 3)
         IN  <<v \div 1024, (v \div 4) % 256>>
    ELSE IF Len(s) = 2
    THEN LET v == 64 * SextetOf(s, 1) + SextetOf(s, 2)
         IN  <<v \div 16>>
    ELSE <<>>

\* base64.RawURLEncoding.DecodeString
RawURLDecodeString(s) ==
    LET t == DropNewlines(s)
    IN  IF (\A i \in 1..Len(t) : IndexByte(URLAlphabet, SubSeq(t, i, i)) # 0)
            /\ Len(t) % 4 # 1
        THEN [val |-> SextetBytes(t), err |-> NoError]
        ELSE [val |-> <<>>, err |-> "illegal base64 data"]

\* The range of the already split string: "N" gives (N, N), "N-M" gives the
\* ordered pair, any other shape is an error
RangeOfParts(s, parts) ==
    IF Len(parts) > 2 \/ ParseUint(parts[1]).err # NoError
            \/ ParseUint(parts[Len(parts)]).err # NoError
    THEN [min |-> 0, max |-> 0, err |-> "invalid range: " \o s]
    ELSE IF ParseUint(parts[1]).val > ParseUint(parts[Len(parts)]).val
    THEN [min |-> ParseUint(parts[Len(parts)]).val,
          max |-> ParseUint(parts[1]).val, err |-> NoError]
    ELSE [min |-> ParseUint(parts[1]).val,
          max |-> ParseUint(parts[Len(parts)]).val, err |-> NoError]

\* ParseRangeString
ParseRangeString(s) == RangeOfParts(s, Split(s, "-"))

\* uint64(v) of an int32 v.  A uint64 is written [carry, low] and stands for
\* carry * 2^64 + low: a negative v is sign-extended to 2^64 + v.
Uint64(v) == [carry |-> IF v < 0 THEN 1 ELSE 0, low |-> v]

\* new(freedom.Noise)
NewNoise ==
    [LengthMin |-> 0, LengthMax |-> 0, Packet |-> <<>>,
     DelayMin |-> Uint64(0), DelayMax |-> Uint64(0),
     CountMin |-> Uint64(0), CountMax |-> Uint64(0)]

\* case "rand", r being the outcome of ParseRangeString
RandPayload(r) ==
    IF r.err # NoError
    THEN [val |-> NewNoise, err |-> "invalid value for rand Length"]
    ELSE IF r.min = 0
    THEN [val |-> NewNoise, err |-> "rand lengthMin or lengthMax cannot be 0"]
    ELSE [val |-> [NewNoise EXCEPT !.LengthMin = r.min, !.LengthMax = r.max],
          err |-> NoError]

\* cases "hex" and "base64", d being the outcome of the decoder
DecodedPayload(d, msg) ==
    IF d.err # NoError
    THEN [val |-> NewNoise, err |-> msg]
    ELSE [val |-> [NewNoise EXCEPT !.Packet = d.val], err |-> NoError]

\* The switch on noise.Type, on the trimmed packet
NoisePayload(Type, Packet) ==
    CASE Type = "rand" -> RandPayload(ParseRangeString(Packet))
      [] Type = "str" ->
            [val |-> [NewNoise EXCEPT !.Packet = Bytes(Packet)], err |-> NoError]
      [] Type = "hex" ->
            DecodedPayload(HexDecodeString(Packet), "Invalid hex string")
      [] Type = "base64" ->
            DecodedPayload(RawURLDecodeString(Replace(Packet)), "Invalid base64 string")
      [] OTHER ->
            [val |-> NewNoise,
             err |-> "Invalid packet, only rand/str/hex/base64 are supported"]

\* NoiseDelayCount with the default count of 1 filled in
NoiseDelayCount_DefaultOne(NConfig, noise) ==
    [NConfig EXCEPT
        !.DelayMin = IF noise.Delay # <<>> THEN Uint64(noise.Delay[1].From) ELSE @,
        !.DelayMax = IF noise.Delay # <<>> THEN Uint64(noise.Delay[1].To) ELSE @,
        !.CountMin = IF noise.Count # <<>> THEN Uint64(noise.Count[1].From)
                     ELSE Uint64(1),
        !.CountMax = IF noise.Count # <<>> THEN Uint64(noise.Count[1].To)
                     ELSE Uint64(1)]

\* The copy of noise.Delay and noise.Count into the descriptor
NoiseDelayCount(NConfig, noise) ==
    [NConfig EXCEPT
        !.DelayMin = IF noise.Delay # <<>> THEN Uint64(noise.Delay[1].From) ELSE @,
        !.DelayMax = IF noise.Delay # <<>> THEN Uint64(noise.Delay[1].To) ELSE @,
        !.CountMin = IF noise.Count # <<>> THEN Uint64(noise.Count[1].From) ELSE @,
        !.CountMax = IF noise.Count # <<>> THEN Uint64(noise.Count[1].To) ELSE @]

\* ParseNoise after the first statement, noise being the trimmed Noise and
\* p the outcome of the switch: the descriptor (<<>> on error), the error,
\* and the Noise the pointer refers to afterwards
NoiseSteps(noise, p) ==
    IF p.err # NoError
    THEN [val |-> <<>>, err |-> p.err, noise |-> noise]
    ELSE [val |-> <<NoiseDelayCount(p.val, noise)>>, err |-> NoError,
          noise |-> noise]

\* ParseNoise on the Noise whose packet has been trimmed in place
ParseTrimmed(noise) == NoiseSteps(noise, NoisePayload(noise.Type, noise.Packet))

\* noise.Packet = strings.TrimSpace(noise.Packet)
TrimPacket(noise) == [noise EXCEPT !.Packet = TrimSpace(noise.Packet)]

\* ParseNoise(noise)
ParseNoise(noise) == ParseTrimmed(TrimPacket(noise))

---------------------------------------------------------------------------
(* FreedomConfig.Build                                                     *)

\* The switch on strings.ToLower(c.DomainStrategy)
DomainStrategySwitch(k, DomainStrategy) ==
    CASE k \in {"asis", ""} -> [val |-> "AS_IS", err |-> NoError]
      [] k = "useip" -> [val |-> "USE_IP", err |-> NoError]
      [] k = "useipv4" -> [val |-> "USE_IP4", err |-> NoError]
      [] k = "useipv6" -> [val |-> "USE_IP6", err |-> NoError]
      [] k = "useipv4v6" -> [val |-> "USE_IP46", err |-> NoError]
      [] k = "useipv6v4" -> [val |-> "USE_IP64", err |-> NoError]
      [] k = "forceip" -> [val |-> "FORCE_IP", err |-> NoError]
      [] k = "forceipv4" -> [val |-> "FORCE_IP4", err |-> NoError]
      [] k = "forceipv6" -> [val |-> "FORCE_IP6", err |-> NoError]
      [] k = "forceipv4v6" -> [val |-> "FORCE_IP46", err |-> NoError]
      [] k = "forceipv6v4" -> [val |-> "FORCE_IP64", err |-> NoError]
      [] OTHER -> [val |-> "AS_IS",
                   err |-> "unsupported domain strategy: " \o DomainStrategy]

BuildDomainStrategy(DomainStrategy) ==
    DomainStrategySwitch(ToLower(DomainStrategy), DomainStrategy)

\* errors.PrintRemovedFeatureError(feature, migrateFeature)
PrintRemovedFeatureError(feature, migrateFeature) ==
    "The feature " \o feature \o " has been removed and migrated to "
        \o migrateFeature

\* BuildNoise that ignores the deprecated field
BuildNoise_Ignored(Noise) == NoError

\* The block on the deprecated c.Noise
BuildNoise(Noise) ==
    IF Noise # <<>>
    THEN PrintRemovedFeatureError("noise = { ... }", "noises = [ { ... } ]")
    ELSE NoError

\* The loop over c.Noises from entry i on, r being the outcome of
\* ParseNoise on entry i: the descriptors appended to acc, or the first
\* error; Noises is the list the pointers refer to afterwards
RECURSIVE BuildNoises(_, _, _)
NoisesStep(Noises, i, acc, r) ==
    IF r.err # NoError
    THEN [val |-> <<>>, err |-> r.err, Noises |-> [Noises EXCEPT ![i] = r.noise]]
    ELSE BuildNoises([Noises EXCEPT ![i] = r.noise], i + 1, Append(acc, r.val[1]))

BuildNoises(Noises, i, acc) ==
    IF i > Len(Noises)
    THEN [val |-> acc, err |-> NoError, Noises |-> Noises]
    ELSE NoisesStep(Noises, i, acc, ParseNoise(Noises[i]))

\* net.SplitHostPort on a hostport of n bytes whose last colon is at i and
\* whose first closing bracket is at end (positions from 1, 0 for none)
SplitAt(hostport, n, i, end) ==
    LET bracket == n > 0 /\ Head(hostport) = "["
        host == IF bracket THEN SubSeq(hostport, 2, end - 1)
                ELSE SubSeq(hostport, 1, i - 1)
        fromJ == IF bracket THEN SubSeq(hostport, 2, n) ELSE hostport
        fromK == IF bracket THEN SubSeq(hostport, end + 1, n) ELSE hostport
        failed(why) == [host |-> "", port |-> "",
                        err |-> "address " \o hostport \o ": " \o why]
    IN  IF i = 0 THEN failed("missing port in address")
        ELSE IF bracket /\ end = 0 THEN failed("missing ']' in address")
        ELSE IF bracket /\ end = n THEN failed("missing port in address")
        ELSE IF bracket /\ end + 1 # i /\ SubSeq(hostport, end + 1, end + 1) = ":"
        THEN failed("too many colons in address")
        ELSE IF bracket /\ end + 1 # i THEN failed("missing port in address")
        ELSE IF ~bracket /\ IndexByte(host, ":") # 0
        THEN failed("too many colons in address")
        ELSE IF IndexByte(fromJ, "[") # 0 THEN failed("unexpected '[' in address")
        ELSE IF IndexByte(fromK, "]") # 0 THEN failed("unexpected ']' in address")
        ELSE [host |-> host, port |-> SubSeq(hostport, i + 1, n), err |-> NoError]

\* net.SplitHostPort
SplitHostPort(hostport) ==
    SplitAt(hostport, Len(hostport), LastIndexByte(hostport, ":"),
            IndexByte(hostport, "]"))

\* v2net.PortFromInt, p being the outcome of ParseUint on s
PortFromInt(s, p) ==
    IF p.err # NoError THEN [val |-> 0, err |-> p.err]
    ELSE IF p.val > 65535 THEN [val |-> 0, err |-> "invalid port range: " \o s]
    ELSE [val |-> p.val, err |-> NoError]

\* v2net.PortFromString: an unsigned decimal number of at most 65535
PortFromString(s) == PortFromInt(s, ParseUint(s))

\* v2net.NewIPOrDomain(v2net.ParseAddress(host)): the address of the host
ParseAddress(host) == [Address |-> host]

\* OverrideOf that sets the server address even when the host is empty
OverrideOf_AlwaysAddress(Redirect, host, port) ==
    IF port.err # NoError
    THEN [val |-> <<>>,
          err |-> "invalid redirect port: " \o Redirect \o ": " \o port.err]
    ELSE [val |-> << [Port |-> port.val, Address |-> <<ParseAddress(host)>>] >>,
          err |-> NoError]

\* The destination override of a split redirect, port being the outcome of
\* PortFromString
OverrideOf(Redirect, host, port) ==
    IF port.err # NoError
    THEN [val |-> <<>>,
          err |-> "invalid redirect port: " \o Redirect \o ": " \o port.err]
    ELSE [val |-> << [Port |-> port.val,
                      Address |-> IF Len(host) > 0 THEN <<ParseAddress(host)>>
                                  ELSE <<>>] >>,
          err |-> NoError]

\* The block on a non-empty c.Redirect, hp being the outcome of SplitHostPort
RedirectSteps(Redirect, hp) ==
    IF hp.err # NoError
    THEN [val |-> <<>>,
          err |-> "invalid redirect address: " \o Redirect \o ": " \o hp.err]
    ELSE OverrideOf(Redirect, hp.host, PortFromString(hp.port))

\* The block on c.Redirect: the destination override (<<>> when there is
\* none), or the error
BuildRedirect(Redirect) ==
    IF Len(Redirect) > 0 THEN RedirectSteps(Redirect, SplitHostPort(Redirect))
    ELSE [val |-> <<>>, err |-> NoError]

\* BuildProxyProtocol that copies every version into the plan
BuildProxyProtocol_Verbatim(ProxyProtocol) == ProxyProtocol

\* The block on c.ProxyProtocol
BuildProxyProtocol(ProxyProtocol) ==
    IF ProxyProtocol > 0 /\ ProxyProtocol <= 2 THEN ProxyProtocol ELSE 0

\* The order of the blocks of Build, ds, fr, noise, ns and rd being the
\* outcomes of the blocks on the domain strategy, the fragment, the
\* deprecated noise, the noises and the redirect: the first error returns
\* with a nil config, and the noises stay trimmed once their loop has run
BuildSteps(cfg, ds, fr, noise, ns, rd) ==
    IF ds.err # NoError THEN [config |-> <<>>, err |-> ds.err, c |-> cfg]
    ELSE IF fr.err # NoError THEN [config |-> <<>>, err |-> fr.err, c |-> cfg]
    ELSE IF noise # NoError THEN [config |-> <<>>, err |-> noise, c |-> cfg]
    ELSE IF ns.err # NoError
    THEN [config |-> <<>>, err |-> ns.err, c |-> [cfg EXCEPT !.Noises = ns.Noises]]
    ELSE IF rd.err # NoError
    THEN [config |-> <<>>, err |-> rd.err, c |-> [cfg EXCEPT !.Noises = ns.Noises]]
    ELSE [config |-> << [DomainStrategy |-> ds.val,
                         Fragment |-> fr.val,
                         Noises |-> ns.val,
                         NoiseKeepAlive |-> cfg.NoiseKeepAlive,
                         UserLevel |-> cfg.UserLevel,
                         DestinationOverride |-> rd.val,
                         ProxyProtocol |-> BuildProxyProtocol(cfg.ProxyProtocol)] >>,
          err |-> NoError,
          c |-> [cfg EXCEPT !.Noises = ns.Noises]]

\* (c *FreedomConfig) Build(): the returned config (<<>> for nil), the
\* returned error, and the value of the receiver afterwards
Build(cfg) ==
    BuildSteps(cfg,
               BuildDomainStrategy(cfg.DomainStrategy),
               IF cfg.Fragment # <<>> THEN BuildFragment(cfg.Fragment[1])
               ELSE [val |-> <<>>, err |-> NoError],
               BuildNoise(cfg.Noise),
               BuildNoises(cfg.Noises, 1, <<>>),
               BuildRedirect(cfg.Redirect))

---------------------------------------------------------------------------
(* The configurations Build is called on                                   *)

RangeChars == {"0", "1", "2", "-", "x"}

\* every string of at most n characters of RangeChars
RECURSIVE StringsUpTo(_)
StringsUpTo(n) ==
    IF n = 0 THEN {""}
    ELSE StringsUpTo(n - 1)
            \cup {s \o ch : s \in StringsUpTo(n - 1), ch \in RangeChars}

RangeStrings ==
    StringsUpTo(MaxStrLen)
        \cup {"50-10", "10-50", "0-5", "5-0", "100-200", "1-2-3", "5-", "-5", "+5", " 5"}

PacketsStrings ==
    RangeStrings \cup {"tlshello", "TLSHello", "fakehost", "FakeHost", "tls", "fakehost-1"}

NewFragment(Packets, Length, Interval) ==
    [Packets |-> Packets, Length |-> Length, Interval |-> Interval,
     Host1_header |-> "", Host1_domain |-> "",
     Host2_header |-> "", Host2_domain |-> ""]

NewConfig(DomainStrategy, Fragment, Noise, Noises, Redirect, ProxyProtocol) ==
    [DomainStrategy |-> DomainStrategy, Redirect |-> Redirect, UserLevel |-> 0,
     Fragment |-> Fragment, Noise |-> Noise, Noises |-> Noises,
     NoiseKeepAlive |-> 0, ProxyProtocol |-> ProxyProtocol]

NewRange(From, To) == [From |-> From, To |-> To]

NewNoiseInput(Type, Packet, Delay, Count) ==
    [Type |-> Type, Packet |-> Packet, Delay |-> Delay, Count |-> Count]

\* one range field of the fragment takes every string, the two others a
\* valid or an invalid sample
FragmentConfigs ==
    LET others == {"", "2-1", "0"}
        frags ==
            {NewFragment(p, l, i) : p \in PacketsStrings, l \in {"2-1"}, i \in others}
            \cup {NewFragment(p, l, i) : p \in {"", "2-1"}, l \in RangeStrings, i \in {"0", "x"}}
            \cup {NewFragment(p, l, i) : p \in {"tlshello"}, l \in {"1", "0"}, i \in RangeStrings}
    IN  {NewConfig("", <<f>>, <<>>, <<>>, "", 0) : f \in frags}

NoiseTypes == {"rand", "str", "hex", "base64", "RAND", ""}

NoisePackets ==
    {"", " ", "5", "2-1", "0-5", "Hello", "  Hello", "Hello\n", " a b\t",
     "48656c6c6f", "48656C6C6F ", "4865x", "486",
     "SGVsbG8", "SGVsbG8=", "-_+/", "SGVsb", "SG\nVs", "SG\rVs", "S=Gk", "SGk=="}

OptionalRanges ==
    {<<>>} \cup {<<NewRange(a, b)>> : a \in {-1, 0, 3}, b \in {0, 3}}

\* every single noise, and every list of at most MaxNoises sample noises
SampleNoises ==
    {NewNoiseInput("str", " a ", <<>>, <<>>),
     NewNoiseInput("hex", "0aff", <<NewRange(1, 2)>>, <<>>),
     NewNoiseInput("rand", "0", <<>>, <<NewRange(2, 2)>>),
     NewNoiseInput("base64", "\tSGk=", <<>>, <<>>)}

RECURSIVE NoiseLists(_)
NoiseLists(n) ==
    IF n = 0 THEN {<<>>}
    ELSE NoiseLists(n - 1)
            \cup {Append(l, x) : l \in NoiseLists(n - 1), x \in SampleNoises}

NoiseConfigs ==
    {NewConfig("", <<>>, <<>>, <<NewNoiseInput(t, p, d, k)>>, "", 0) :
        t \in NoiseTypes, p \in NoisePackets, d \in OptionalRanges, k \in {<<>>}}
    \cup {NewConfig("", <<>>, <<>>, <<NewNoiseInput(t, p, d, k)>>, "", 0) :
        t \in {"str", "rand"}, p \in {"1", "x"}, d \in OptionalRanges, k \in OptionalRanges}
    \cup {NewConfig("", <<>>, <<>>, l, r, 0) :
        l \in NoiseLists(MaxNoises), r \in {"", "bad"}}

\* every field is valid or invalid independently of the others
MixedConfigs ==
    LET strategies == {"", "UseIPv4", "bogus"}
        fragments == {<<>>,
                      <<NewFragment("fakehost", "3", "0")>>,
                      <<NewFragment("0", "", "")>>,
                      <<NewFragment("", "0", "x")>>,
                      <<NewFragment("1-3", "10-20", "")>>}
        noise == {<<>>, <<NewNoiseInput("str", "a", <<>>, <<>>)>>}
        noises == NoiseLists(1) \cup
                    {<<NewNoiseInput("hex", " x", <<>>, <<>>),
                       NewNoiseInput("tcp", "", <<>>, <<>>)>>}
        redirects == {"", "example.com:443", "bad"}
        protocols == {0, 5}
    IN  {NewConfig(s, f, n, l, r, pp) : s \in strategies, f \in fragments,
            n \in noise, l \in noises, r \in redirects, pp \in protocols}

\* every redirect and every proxy protocol version, the rest being valid
RedirectConfigs ==
    LET redirects == {"", "example.com:443", ":443", "bad", "h:70000", "h:65535",
                      "[::1]:80", "a:b:1", "h:", "h:x", "[a]b:1", "[a:1", "a]:1",
                      "h:0", ":0", "h:080", "h:65536", "h:+80", "h: 80", ":", "x:-1"}
        protocols == {0, 1, 2, 3, 5}
        level == {[UserLevel |-> 0, NoiseKeepAlive |-> 0],
                  [UserLevel |-> 1, NoiseKeepAlive |-> 5]}
    IN  {[NewConfig("AsIs", <<>>, <<>>, <<>>, r, pp)
            EXCEPT !.UserLevel = l.UserLevel, !.NoiseKeepAlive = l.NoiseKeepAlive] :
            r \in redirects, pp \in protocols, l \in level}

Configs == FragmentConfigs \cup NoiseConfigs \cup MixedConfigs \cup RedirectConfigs

---------------------------------------------------------------------------
(* main/main.go: the files of the working directory                        *)
(*                                                                         *)
(* A directory maps a file name to <<>> when the file is missing and to    *)
(* <<f>> when it exists, f.layout telling whether the bytes are those the  *)
(* operator wrote or those json.MarshalIndent wrote, and f.json being <<>> *)
(* when the bytes are no JSON object and <<doc>> when they spell doc.      *)

FileNames == {"config.json", "a.json", "proxy.json", "fragment.json", "sockopt.json"}

\* os.Stat(name) returns no error
Stat(fs, name) == name \in DOMAIN fs /\ fs[name] # <<>>

\* ioutil.ReadFile followed by json.Unmarshal into a map: the object, or the
\* error of the step that failed (what names the file in the message)
ReadJSON(fs, name, what) ==
    IF ~Stat(fs, name)
    THEN [val |-> <<>>, err |-> "failed to read " \o what \o " file"]
    ELSE IF fs[name][1].json = <<>>
    THEN [val |-> <<>>, err |-> "failed to parse " \o what \o " JSON"]
    ELSE [val |-> fs[name][1].json, err |-> NoError]

\* json.MarshalIndent(config, "", "  ") followed by ioutil.WriteFile
WriteJSON(fs, name, doc) ==
    [fs EXCEPT ![name] = <<[layout |-> "indented", json |-> <<doc>>]>>]

---------------------------------------------------------------------------
(* main/main.go: the command line                                          *)

HasPrefix(s, prefix) == Len(s) >= Len(prefix) /\ SubSeq(s, 1, Len(prefix)) = prefix
TrimPrefix(s, prefix) == IF HasPrefix(s, prefix) THEN SubSeq(s, Len(prefix) + 1, Len(s)) ELSE s

ErrHelp == "flag: help requested"

\* strconv.ParseBool
ParseBool(s) ==
    IF s \in {"1", "t", "T", "TRUE", "true", "True"} THEN [val |-> TRUE, err |-> NoError]
    ELSE IF s \in {"0", "f", "F", "FALSE", "false", "False"}
    THEN [val |-> FALSE, err |-> NoError]
    ELSE [val |-> FALSE, err |-> "invalid syntax"]

\* The flag set of getArgsV4Compatible, which defines the boolean flag
\* "version" alone, on a flag of the given name: eq is the position of the
\* "=" that starts its value, 0 when it has none
RECURSIVE FlagSetParse(_, _)
ParseFlag(arguments, version, name, eq) ==
    IF (IF eq = 0 THEN name ELSE SubSeq(name, 1, eq - 1)) # "version"
    THEN [err |-> IF (IF eq = 0 THEN name ELSE SubSeq(name, 1, eq - 1)) \in {"help", "h"}
                  THEN ErrHelp ELSE "flag provided but not defined",
          version |-> version]
    ELSE IF eq = 0 THEN FlagSetParse(Tail(arguments), TRUE)
    ELSE IF ParseBool(SubSeq(name, eq + 1, Len(name))).err # NoError
    THEN [err |-> "invalid boolean value", version |-> FALSE]
    ELSE FlagSetParse(Tail(arguments), ParseBool(SubSeq(name, eq + 1, Len(name))).val)

\* one argument s of the flag set: a flag, or the end of the flags
ParseOne(arguments, version, s, name) ==
    IF Len(s) < 2 \/ Head(s) # "-" \/ s = "--"
    THEN [err |-> NoError, version |-> version]
    ELSE IF name = "" \/ Head(name) \in {"-", "="}
    THEN [err |-> "bad flag syntax", version |-> version]
    ELSE ParseFlag(arguments, version, name, IndexByte(name, "="))

\* fs.Parse(arguments): the error, and the value of the flag "version"
FlagSetParse(arguments, version) ==
    IF arguments = <<>> THEN [err |-> NoError, version |-> version]
    ELSE ParseOne(arguments, version, Head(arguments),
                  IF HasPrefix(Head(arguments), "--")
                  THEN SubSeq(Head(arguments), 3, Len(Head(arguments)))
                  ELSE SubSeq(Head(arguments), 2, Len(Head(arguments))))

\* the legacy flags of getArgsV4Compatible, p being the outcome of fs.Parse
LegacyArgs(osArgs, p) ==
    IF p.err = ErrHelp THEN <<osArgs[1], "help">>
    ELSE IF p.version THEN <<osArgs[1], "version">>
    ELSE <<osArgs[1], "run">> \o Tail(osArgs)

\* getArgsV4Compatible(): the arguments, or the panic of os.Args[1][0] on an
\* empty first argument
getArgsV4Compatible(osArgs) ==
    IF Len(osArgs) = 1 THEN [args |-> <<osArgs[1], "run">>, panic |-> FALSE]
    ELSE IF osArgs[2] = "" THEN [args |-> osArgs, panic |-> TRUE]
    ELSE IF Head(osArgs[2]) # "-" THEN [args |-> osArgs, panic |-> FALSE]
    ELSE [args |-> LegacyArgs(osArgs, FlagSetParse(Tail(osArgs), FALSE)),
          panic |-> FALSE]

\* The loop of getConfigFilePathToEdit over os.Args from position i on
RECURSIVE ConfigArgFrom(_, _)
ConfigArgFrom(osArgs, i) ==
    IF i > Len(osArgs) THEN ""
    ELSE IF osArgs[i] \in {"-c", "--config"}
    THEN (IF i + 1 <= Len(osArgs) THEN osArgs[i + 1] ELSE ConfigArgFrom(osArgs, i + 1))
    ELSE IF HasPrefix(osArgs[i], "--config=") THEN TrimPrefix(osArgs[i], "--config=")
    ELSE ConfigArgFrom(osArgs, i + 1)

\* getConfigFilePathToEdit that looks at the command line first
getConfigFilePathToEdit_ArgsFirst(osArgs, fs) ==
    IF ConfigArgFrom(osArgs, 1) # "" THEN ConfigArgFrom(osArgs, 1)
    ELSE IF Stat(fs, "config.json") THEN "config.json"
    ELSE ""

\* getConfigFilePathToEdit()
getConfigFilePathToEdit(osArgs, fs) ==
    IF Stat(fs, "config.json") THEN "config.json"
    ELSE ConfigArgFrom(osArgs, 1)

\* The loop of updateArgsWithConfigFile over args from position i on: the
\* arguments it keeps
RECURSIVE KeptArgs(_, _)
KeptArgs(argv, i) ==
    IF i > Len(argv) THEN <<>>
    ELSE IF argv[i] \in {"-c", "--config"}
    THEN KeptArgs(argv, IF i + 1 <= Len(argv) THEN i + 2 ELSE i + 1)
    ELSE IF HasPrefix(argv[i], "--config=") THEN KeptArgs(argv, i + 1)
    ELSE <<argv[i]>> \o KeptArgs(argv, i + 1)

\* updateArgsWithConfigFile(args, configFilePath)
updateArgsWithConfigFile(argv, path) ==
    <<argv[1]>> \o KeptArgs(argv, 2) \o <<"-c", path>>

\* isUsingDefaultConfig(configFilePath)
isUsingDefaultConfig(path, fs) == path = "config.json" /\ Stat(fs, "config.json")

---------------------------------------------------------------------------
(* main/main.go: the outbounds                                             *)
(*                                                                         *)
(* An entry of the outbounds array is a record: object tells whether it is *)
(* a JSON object, tag and protocol are <<s>> for the string s and <<>>     *)
(* when the key is missing or no string, streamSettings is <<m>> for the   *)
(* object m and <<>> otherwise, m.sockopt likewise.  A sockopt object is a *)
(* function from its keys to their values.                                 *)

\* the first position of outbounds that holds an object with the given tag
TagPositions(outbounds, tag) ==
    {i \in DOMAIN outbounds : outbounds[i].object /\ outbounds[i].tag = <<tag>>}

FirstOf(positions) == CHOOSE i \in positions : \A j \in positions : i <= j

\* replaceProxyOutbound(outbounds, proxyConfig)
replaceProxyOutbound(outbounds, proxyConfig) ==
    IF TagPositions(outbounds, "proxy") = {} THEN outbounds
    ELSE [outbounds EXCEPT ![FirstOf(TagPositions(outbounds, "proxy"))] = proxyConfig]

\* sockopt[key] = value for every key of sockoptConfig
MergeSockopt(sockopt, sockoptConfig) ==
    [key \in DOMAIN sockopt \cup DOMAIN sockoptConfig |->
        IF key \in DOMAIN sockoptConfig THEN sockoptConfig[key] ELSE sockopt[key]]

\* The streamSettings of applySockoptToOutbound: the existing object, or a
\* new empty one
StreamSettingsOf(outbound) ==
    IF outbound.streamSettings # <<>> THEN outbound.streamSettings[1]
    ELSE [network |-> <<>>, sockopt |-> <<>>]

\* The sockopt of applySockoptToOutbound: the existing object, or a new
\* empty one
SockoptOf(streamSettings) ==
    IF streamSettings.sockopt # <<>> THEN streamSettings.sockopt[1] ELSE <<>>

\* applySockoptToOutbound(outbound, sockoptConfig): the outbound afterwards
applySockoptToOutbound(outbound, sockoptConfig) ==
    IF sockoptConfig = <<>> THEN outbound
    ELSE [outbound EXCEPT !.streamSettings =
            <<[StreamSettingsOf(outbound) EXCEPT !.sockopt =
                <<MergeSockopt(SockoptOf(StreamSettingsOf(outbound)), sockoptConfig[1])>>]>>]

supportedProtocols == {"vmess", "vless", "trojan"}

\* contains(supportedProtocols, protocol) for the protocol of an outbound
IsSupported(outbound) ==
    outbound.protocol # <<>> /\ outbound.protocol[1] \in supportedProtocols

\* The loop of modifyOutbounds: every outbound after it
ModifiedOutbounds(outbounds, sockoptConfig) ==
    [i \in DOMAIN outbounds |->
        IF outbounds[i].object /\ IsSupported(outbounds[i])
        THEN applySockoptToOutbound(outbounds[i], sockoptConfig)
        ELSE outbounds[i]]

\* modifyOutbounds(outbounds, fragment, sockoptConfig)
modifyOutbounds(outbounds, fragment, sockoptConfig) ==
    IF TagPositions(outbounds, "fragment") # {}
    THEN ModifiedOutbounds(outbounds, sockoptConfig)
    ELSE Append(ModifiedOutbounds(outbounds, sockoptConfig), fragment)

\* Steps 3 to 5 of processProxyConfig, config being the parsed main
\* configuration and proxy the outcome of reading proxy.json
ProxySteps(path, fs, config, proxy) ==
    IF config.outbounds = <<>>
    THEN [err |-> "missing or invalid 'outbounds' array in config", files |-> fs]
    ELSE IF proxy.err # NoError THEN [err |-> proxy.err, files |-> fs]
    ELSE [err |-> NoError,
          files |-> WriteJSON(fs, path,
                        [config EXCEPT !.outbounds =
                            <<replaceProxyOutbound(config.outbounds[1], proxy.val[1])>>])]

\* processProxyConfig past the check of proxy.json, config being the
\* outcome of reading the main configuration
ProxyConfigRead(path, fs, config) ==
    IF config.err # NoError THEN [err |-> config.err, files |-> fs]
    ELSE ProxySteps(path, fs, config.val[1], ReadJSON(fs, "proxy.json", "proxy"))

\* processProxyConfig(configFilePath): the error, and the files afterwards
processProxyConfig(path, fs) ==
    IF ~Stat(fs, "proxy.json") THEN [err |-> NoError, files |-> fs]
    ELSE ProxyConfigRead(path, fs, ReadJSON(fs, path, "config"))

\* Step 4 of processFragmentConfig: the parsed sockopt.json, nil when the
\* file is missing or is no JSON object
SockoptConfig(fs) ==
    IF Stat(fs, "sockopt.json") THEN fs["sockopt.json"][1].json ELSE <<>>

\* Steps 3 to 6 of processFragmentConfig
FragmentSaved(path, fs, config, fragment) ==
    IF config.outbounds = <<>>
    THEN [err |-> "missing or invalid 'outbounds' array in config", files |-> fs]
    ELSE IF fragment.err # NoError THEN [err |-> fragment.err, files |-> fs]
    ELSE [err |-> NoError,
          files |-> WriteJSON(fs, path,
                        [config EXCEPT !.outbounds =
                            <<modifyOutbounds(config.outbounds[1], fragment.val[1],
                                              SockoptConfig(fs))>>])]

\* processFragmentConfig past the check of fragment.json
FragmentConfigRead(path, fs, config) ==
    IF config.err # NoError THEN [err |-> config.err, files |-> fs]
    ELSE FragmentSaved(path, fs, config.val[1], ReadJSON(fs, "fragment.json", "fragment"))

\* processFragmentConfig(configFilePath): the error, and the files afterwards
processFragmentConfig(path, fs) ==
    IF ~Stat(fs, "fragment.json") THEN [err |-> NoError, files |-> fs]
    ELSE FragmentConfigRead(path, fs, ReadJSON(fs, path, "config"))

---------------------------------------------------------------------------
(* The command lines and directories main is started with                  *)

ArgTokens ==
    {"-c", "--config", "--config=a.json", "a.json", "run", "", "-h", "-version",
     "-c=a.json"}

\* every list of at most n arguments
RECURSIVE ArgLists(_)
ArgLists(n) ==
    IF n = 0 THEN {<<>>}
    ELSE ArgLists(n - 1) \cup {Append(l, t) : l \in ArgLists(n - 1), t \in ArgTokens}

CommandLines ==
    {<<"xray">> \o l : l \in ArgLists(MaxArgs)}
        \cup {<<"xray", "run", "-c", "a.json">>,
              <<"xray", "run", "--config", "a.json", "-c">>,
              <<"xray", "-c", "-c", "a.json", "--config=a.json">>}

NewFile(json) == <<[layout |-> "operator", json |-> json]>>

NewOutbound(tag, protocol, streamSettings) ==
    [object |-> TRUE, tag |-> tag, protocol |-> protocol,
     streamSettings |-> streamSettings]

\* an entry of the outbounds array that is no JSON object
NotAnObject ==
    [object |-> FALSE, tag |-> <<>>, protocol |-> <<>>, streamSettings |-> <<>>]

SampleOutbounds ==
    {NotAnObject,
     NewOutbound(<<"proxy">>, <<"vless">>, <<>>),
     NewOutbound(<<"fragment">>, <<"freedom">>, <<>>),
     NewOutbound(<<>>, <<"trojan">>,
                 <<[network |-> <<"tcp">>, sockopt |-> <<[mark |-> 1]>>]>>),
     NewOutbound(<<"direct">>, <<"freedom">>, <<>>)}

\* every list of at most n sample outbounds
RECURSIVE OutboundLists(_)
OutboundLists(n) ==
    IF n = 0 THEN {<<>>}
    ELSE OutboundLists(n - 1)
            \cup {Append(l, o) : l \in OutboundLists(n - 1), o \in SampleOutbounds}

NewConfigDoc(outbounds) == [outbounds |-> outbounds]

\* a configuration file: missing, no JSON, without outbounds array, or with
\* one of the outbounds lists
ConfigFiles ==
    {<<>>, NewFile(<<>>), NewFile(<<NewConfigDoc(<<>>)>>)}
        \cup {NewFile(<<NewConfigDoc(<<l>>)>>) : l \in OutboundLists(MaxOutbounds)}

SimpleConfigFile ==
    NewFile(<<NewConfigDoc(<< <<NewOutbound(<<"proxy">>, <<"vless">>, <<>>)>> >>)>>)

ProxyFiles ==
    {<<>>, NewFile(<<>>), NewFile(<<NewOutbound(<<"proxy">>, <<"vmess">>, <<>>)>>)}

FragmentFiles ==
    {<<>>, NewFile(<<>>),
     NewFile(<<NewOutbound(<<"fragment">>, <<"freedom">>, <<>>)>>),
     NewFile(<<NewOutbound(<<"frag">>, <<"freedom">>, <<>>)>>)}

SockoptFiles == {<<>>, NewFile(<<>>), NewFile(<<[mark |-> 255]>>)}

NewDir(config, a, proxy, fragment, sockopt) ==
    [name \in FileNames |->
        CASE name = "config.json" -> config
          [] name = "a.json" -> a
          [] name = "proxy.json" -> proxy
          [] name = "fragment.json" -> fragment
          [] name = "sockopt.json" -> sockopt]

\* every command line in a few directories, and every directory under the
\* command lines that name a.json
Startups ==
    {[args |-> l, files |-> NewDir(cf, SimpleConfigFile, p, f, NewFile(<<[mark |-> 255]>>))] :
        l \in CommandLines,
        cf \in {<<>>, SimpleConfigFile},
        p \in {<<>>, NewFile(<<NewOutbound(<<"proxy">>, <<"vmess">>, <<>>)>>)},
        f \in {<<>>, NewFile(<<NewOutbound(<<"fragment">>, <<"freedom">>, <<>>)>>)}}
    \cup
    {[args |-> l, files |-> NewDir(<<>>, a, p, f, s)] :
        l \in {<<"xray", "-c", "a.json">>, <<"xray", "run", "--config=a.json">>},
        a \in ConfigFiles, p \in ProxyFiles, f \in FragmentFiles, s \in SockoptFiles}

---------------------------------------------------------------------------
(* The state machines                                                      *)

\* no process of main has been started
NoProcess ==
    /\ args = <<>> /\ args0 = <<>>
    /\ files = [name \in FileNames |-> <<>>] /\ files0 = files
    /\ pc = "none" /\ configFilePath = "" /\ runs = 0

\* no FreedomConfig is being built
NoBuild ==
    /\ c = NewConfig("", <<>>, <<>>, <<>>, "", 0)
    /\ orig = c
    /\ rets = <<>>

(* Successive Build calls on one configuration object                      *)

Init ==
    /\ c \in Configs
    /\ orig = c
    /\ rets = <<>>
    /\ NoProcess

\* config, err := c.Build()
CallBuild ==
    /\ Len(rets) < MaxCalls
    /\ rets' = Append(rets, [config |-> Build(c).config, err |-> Build(c).err])
    /\ c' = Build(c).c
    /\ UNCHANGED <<orig, mainVars>>

Next == CallBuild

Spec == Init /\ [][Next]_vars

(* Successive runs of main with one command line in one directory          *)

InitMain ==
    /\ \E s \in Startups : args = s.args /\ files = s.files
    /\ args0 = args /\ files0 = files
    /\ pc = "start" /\ configFilePath = "" /\ runs = 1
    /\ NoBuild

\* os.Args = getArgsV4Compatible()
ArgsV4Compatible ==
    /\ pc = "start"
    /\ args' = getArgsV4Compatible(args).args
    /\ pc' = IF getArgsV4Compatible(args).panic THEN "panicked" ELSE "detect"
    /\ UNCHANGED <<files, configFilePath, runs, args0, files0, buildVars>>

\* Steps 1 and 2 of main: the configuration file is chosen and put on the
\* command line, or main returns for want of one
DetectConfigFile ==
    /\ pc = "detect"
    /\ configFilePath' = getConfigFilePathToEdit(args, files)
    /\ IF configFilePath' = ""
       THEN pc' = "returned" /\ UNCHANGED args
       ELSE pc' = "check" /\ args' = updateArgsWithConfigFile(args, configFilePath')
    /\ UNCHANGED <<files, runs, args0, files0, buildVars>>

\* Step 3 of main: the default configuration skips the processing
CheckDefaultConfig ==
    /\ pc = "check"
    /\ pc' = IF isUsingDefaultConfig(configFilePath, files) THEN "execute" ELSE "proxy"
    /\ UNCHANGED <<args, files, configFilePath, runs, args0, files0, buildVars>>

\* Step 4 of main: err := processProxyConfig(configFilePath)
ProcessProxyConfig ==
    /\ pc = "proxy"
    /\ files' = processProxyConfig(configFilePath, files).files
    /\ pc' = IF processProxyConfig(configFilePath, files).err # NoError
             THEN "returned" ELSE "fragment"
    /\ UNCHANGED <<args, configFilePath, runs, args0, files0, buildVars>>

\* Step 5 of main: err = processFragmentConfig(configFilePath)
ProcessFragmentConfig ==
    /\ pc = "fragment"
    /\ files' = processFragmentConfig(configFilePath, files).files
    /\ pc' = IF processFragmentConfig(configFilePath, files).err # NoError
             THEN "returned" ELSE "execute"
    /\ UNCHANGED <<args, configFilePath, runs, args0, files0, buildVars>>

\* Step 6 of main: base.Execute() runs Xray on os.Args
Execute ==
    /\ pc = "execute"
    /\ pc' = "executed"
    /\ UNCHANGED <<args, files, configFilePath, runs, args0, files0, buildVars>>

\* the program is started again with the same command line in the same
\* directory, whose files are as the last run left them
Restart ==
    /\ pc \in {"executed", "returned", "panicked"}
    /\ runs < MaxRuns
    /\ runs' = runs + 1
    /\ args' = args0
    /\ configFilePath' = ""
    /\ pc' = "start"
    /\ UNCHANGED <<files, args0, files0, buildVars>>

NextMain ==
    \/ ArgsV4Compatible
    \/ DetectConfigFile
    \/ CheckDefaultConfig
    \/ ProcessProxyConfig
    \/ ProcessFragmentConfig
    \/ Execute
    \/ Restart

SpecMain == InitMain /\ [][NextMain]_vars

---------------------------------------------------------------------------
(* Vocabulary of the properties                                            *)

Calls == DOMAIN rets
Built(k) == rets[k].config # <<>>
Failed(k) == rets[k].config = <<>> /\ rets[k].err # NoError
Plan(k) == rets[k].config[1]
HasFragment == orig.Fragment # <<>>
InFragment == orig.Fragment[1]
PlanFragment(k) == Plan(k).Fragment[1]

\* a single unsigned decimal token "N"
IsDecimal(s) == s # "" /\ \A i \in 1..Len(s) : SubSeq(s, i, i) \in Digits

\* the positions of the dash of a string "N-M" of two unsigned decimal tokens
DashOf(s) ==
    {i \in 1..Len(s) : /\ SubSeq(s, i, i) = "-"
                       /\ IsDecimal(SubSeq(s, 1, i - 1))
                       /\ IsDecimal(SubSeq(s, i + 1, Len(s)))}

IsDecimalPair(s) == DashOf(s) # {}
LeftOf(s) == DecimalValue(SubSeq(s, 1, (CHOOSE i \in DashOf(s) : TRUE) - 1))
RightOf(s) == DecimalValue(SubSeq(s, (CHOOSE i \in DashOf(s) : TRUE) + 1, Len(s)))

IsRange(s) == IsDecimal(s) \/ IsDecimalPair(s)

\* the bounds that the range string s spells
SpelledMin(s) ==
    IF IsDecimal(s) THEN DecimalValue(s)
    ELSE IF LeftOf(s) > RightOf(s) THEN RightOf(s) ELSE LeftOf(s)
SpelledMax(s) ==
    IF IsDecimal(s) THEN DecimalValue(s)
    ELSE IF LeftOf(s) > RightOf(s) THEN LeftOf(s) ELSE RightOf(s)

\* s is a range string and min, max are the bounds it spells
Spells(s, min, max) ==
    /\ IsDecimal(s) => min = DecimalValue(s) /\ max = DecimalValue(s)
    /\ IsDecimalPair(s) /\ LeftOf(s) > RightOf(s) =>
            min = RightOf(s) /\ max = LeftOf(s)
    /\ IsDecimalPair(s) /\ LeftOf(s) <= RightOf(s) =>
            min = LeftOf(s) /\ max = RightOf(s)

\* the domain strategy keywords
ValidStrategy(s) ==
    ToLower(s) \in {"", "asis", "useip", "useipv4", "useipv6", "useipv4v6",
                    "useipv6v4", "forceip", "forceipv4", "forceipv6",
                    "forceipv4v6", "forceipv6v4"}

\* range strings of the documented shapes that pass the zero policy
PacketsAccepted(s) ==
    \/ ToLower(s) \in {"tlshello", "fakehost", ""}
    \/ IsRange(s) /\ SpelledMin(s) >= 1
LengthAccepted(s) == IsRange(s) /\ SpelledMin(s) >= 1
IntervalAccepted(s) == IsRange(s)

\* a non-empty string of neither documented shape
Malformed(s) == s # "" /\ ~IsRange(s)

\* nothing but the fragment can make Build fail
RestValid ==
    /\ ValidStrategy(orig.DomainStrategy)
    /\ orig.Noise = <<>> /\ orig.Noises = <<>> /\ orig.Redirect = ""

---------------------------------------------------------------------------
(* C1: in every built plan each range field of the fragment holds the      *)
(* bounds its string spells: "N-M" with N > M gives min = M and max = N,   *)
(* "N-M" with N <= M gives min = N and max = M, "N" gives min = max = N;   *)
(* and LengthMin <= LengthMax, IntervalMin <= IntervalMax and              *)
(* PacketsFrom <= PacketsTo.                                               *)
C1_RangesOrdered ==
    \A k \in Calls :
        Built(k) /\ HasFragment =>
            LET f == PlanFragment(k)
            IN  /\ Spells(InFragment.Packets, f.PacketsFrom, f.PacketsTo)
                /\ Spells(InFragment.Length, f.LengthMin, f.LengthMax)
                /\ Spells(InFragment.Interval, f.IntervalMin, f.IntervalMax)
                /\ f.PacketsFrom <= f.PacketsTo
                /\ f.LengthMin <= f.LengthMax
                /\ f.IntervalMin <= f.IntervalMax

\* a plan built from a reversed packets range, length and interval
C1_Witness ==
    /\ rets # <<>> /\ Built(1) /\ HasFragment
    /\ InFragment.Packets = "2-1" /\ InFragment.Length = "2-1"
    /\ InFragment.Interval = "2-1"
    /\ PlanFragment(1).PacketsFrom = 1 /\ PlanFragment(1).PacketsTo = 2
    /\ PlanFragment(1).LengthMin = 1 /\ PlanFragment(1).LengthMax = 2
    /\ PlanFragment(1).IntervalMin = 1 /\ PlanFragment(1).IntervalMax = 2

---------------------------------------------------------------------------
(* C2: in every built plan "tlshello" gives PacketsFrom = 0 and            *)
(* PacketsTo = 1, "fakehost" gives PacketsFrom = PacketsTo = 1 and         *)
(* FakeHost, the empty string gives PacketsFrom = PacketsTo = 0, and       *)
(* FakeHost is set only when packets selected the fakehost mode.           *)
C2_PacketModes ==
    \A k \in Calls :
        Built(k) /\ HasFragment =>
            LET f == PlanFragment(k)
                mode == ToLower(InFragment.Packets)
            IN  /\ mode = "tlshello" => f.PacketsFrom = 0 /\ f.PacketsTo = 1
                /\ mode = "fakehost" =>
                        f.PacketsFrom = 1 /\ f.PacketsTo = 1 /\ f.FakeHost
                /\ mode = "" => f.PacketsFrom = 0 /\ f.PacketsTo = 0
                /\ f.FakeHost => mode = "fakehost"

\* a plan built in the tlshello mode, spelled in mixed case
C2_Witness ==
    /\ rets # <<>> /\ Built(1) /\ HasFragment
    /\ InFragment.Packets = "TLSHello"
    /\ PlanFragment(1).PacketsFrom = 0 /\ PlanFragment(1).PacketsTo = 1
    /\ ~PlanFragment(1).FakeHost

---------------------------------------------------------------------------
(* C3: in every built plan with a fragment PacketsFrom <= PacketsTo, and   *)
(* PacketsFrom > 0 unless the plan is the all-packets default (packets     *)
(* empty, both bounds 0); a numeric packets value whose lower bound is 0   *)
(* makes Build fail.                                                       *)
C3_PacketsFromPositive ==
    \A k \in Calls :
        HasFragment =>
            /\ Built(k) =>
                /\ PlanFragment(k).PacketsFrom <= PlanFragment(k).PacketsTo
                /\ \/ PlanFragment(k).PacketsFrom > 0
                   \/ /\ InFragment.Packets = ""
                      /\ PlanFragment(k).PacketsFrom = 0
                      /\ PlanFragment(k).PacketsTo = 0
            /\ IsRange(InFragment.Packets) /\ SpelledMin(InFragment.Packets) = 0
                    => Failed(k)

(* C3 as amended: PacketsFrom > 0 unless the plan is the all-packets       *)
(* default (both bounds 0) or the tlshello plan (bounds 0 and 1).          *)
C3_PacketsFromPositiveOrHello ==
    \A k \in Calls :
        HasFragment =>
            /\ Built(k) =>
                /\ PlanFragment(k).PacketsFrom <= PlanFragment(k).PacketsTo
                /\ \/ PlanFragment(k).PacketsFrom > 0
                   \/ /\ InFragment.Packets = ""
                      /\ PlanFragment(k).PacketsFrom = 0
                      /\ PlanFragment(k).PacketsTo = 0
                   \/ /\ ToLower(InFragment.Packets) = "tlshello"
                      /\ PlanFragment(k).PacketsFrom = 0
                      /\ PlanFragment(k).PacketsTo = 1
            /\ IsRange(InFragment.Packets) /\ SpelledMin(InFragment.Packets) = 0
                    => Failed(k)

\* Build has failed on the packets range "2-0", whose lower bound is 0
C3_Witness ==
    /\ rets # <<>> /\ HasFragment
    /\ InFragment.Packets = "2-0" /\ InFragment.Length = "2-1"
    /\ InFragment.Interval = "0"
    /\ Failed(1) /\ rets[1].err = "PacketsFrom can't be 0"

---------------------------------------------------------------------------
(* C4: an empty length and a length whose lower bound is 0 make Build      *)
(* fail, so every built plan has LengthMin >= 1; an empty interval makes   *)
(* Build fail, but an interval whose lower bound is 0 is accepted: when    *)
(* nothing else is wrong the plan is built with IntervalMin = 0 and the    *)
(* upper bound the string spells.                                          *)
C4_ZeroPolicy ==
    \A k \in Calls :
        HasFragment =>
            /\ InFragment.Length = "" => Failed(k)
            /\ IsRange(InFragment.Length) /\ SpelledMin(InFragment.Length) = 0
                    => Failed(k)
            /\ Built(k) => PlanFragment(k).LengthMin >= 1
            /\ InFragment.Interval = "" => Failed(k)
            /\ /\ IsRange(InFragment.Interval)
               /\ SpelledMin(InFragment.Interval) = 0
               /\ PacketsAccepted(InFragment.Packets)
               /\ LengthAccepted(InFragment.Length)
               /\ RestValid
               => /\ Built(k)
                  /\ PlanFragment(k).IntervalMin = 0
                  /\ PlanFragment(k).IntervalMax = SpelledMax(InFragment.Interval)

\* a plan built from the interval "0-5"
C4_Witness ==
    /\ rets # <<>> /\ Built(1) /\ HasFragment
    /\ InFragment.Interval = "0-5"
    /\ PlanFragment(1).IntervalMin = 0 /\ PlanFragment(1).IntervalMax = 5
    /\ PlanFragment(1).LengthMin = 1

---------------------------------------------------------------------------
(* C5: a packets, length or interval string that is neither "N" nor "N-M"  *)
(* makes Build fail with an error that names the field (the packets string *)
(* when the domain strategy is valid, the length when the packets are      *)
(* valid too, the interval when the length is valid too).                  *)
C5_MalformedRejected ==
    \A k \in Calls :
        HasFragment /\ ValidStrategy(orig.DomainStrategy) =>
            /\ /\ Malformed(InFragment.Packets)
               /\ ToLower(InFragment.Packets) \notin {"tlshello", "fakehost"}
               => /\ Failed(k)
                  /\ rets[k].err \in {"Invalid PacketsFrom", "Invalid PacketsTo",
                                      "PacketsFrom can't be 0"}
            /\ PacketsAccepted(InFragment.Packets) /\ Malformed(InFragment.Length)
               => /\ Failed(k)
                  /\ rets[k].err \in {"Invalid LengthMin", "Invalid LengthMax",
                                      "LengthMin can't be 0"}
            /\ /\ PacketsAccepted(InFragment.Packets)
               /\ LengthAccepted(InFragment.Length)
               /\ Malformed(InFragment.Interval)
               => /\ Failed(k)
                  /\ rets[k].err \in {"Invalid IntervalMin", "Invalid IntervalMax"}

---------------------------------------------------------------------------
(* C6: whenever the deprecated noise field is present Build returns an     *)
(* error and no plan; when the domain strategy and the fragment are valid  *)
(* the error is the removed-feature error naming noises, whatever the      *)
(* noises, the redirect and the proxy protocol are.                        *)
C6_NoiseRemoved ==
    \A k \in Calls :
        orig.Noise # <<>> =>
            /\ Failed(k)
            /\ /\ ValidStrategy(orig.DomainStrategy)
               /\ HasFragment =>
                    /\ PacketsAccepted(InFragment.Packets)
                    /\ LengthAccepted(InFragment.Length)
                    /\ IntervalAccepted(InFragment.Interval)
               => rets[k].err =
                    "The feature noise = { ... } has been removed and migrated to noises = [ { ... } ]"

\* Build has returned the removed-feature error on a configuration whose
\* noises and redirect are invalid too
C6_Witness ==
    /\ rets # <<>> /\ Failed(1)
    /\ orig.Noise # <<>> /\ orig.Redirect = "bad" /\ orig.ProxyProtocol = 5
    /\ Len(orig.Noises) = 2 /\ orig.Noises[2].Type = "tcp"
    /\ rets[1].err =
        "The feature noise = { ... } has been removed and migrated to noises = [ { ... } ]"

---------------------------------------------------------------------------
\* the error each field yields on its own, in the validation order
FieldErrors ==
    <<BuildDomainStrategy(orig.DomainStrategy).err>>
        \o (IF HasFragment
            THEN <<BuildPackets(InFragment.Packets).err,
                   BuildLength(InFragment.Length).err,
                   BuildInterval(InFragment.Interval).err>>
            ELSE <<>>)
        \o <<BuildNoise(orig.Noise)>>
        \o [i \in 1..Len(orig.Noises) |-> ParseNoise(orig.Noises[i]).err]
        \o <<BuildRedirect(orig.Redirect).err>>

FirstError(errs) ==
    IF \A i \in DOMAIN errs : errs[i] = NoError THEN NoError
    ELSE errs[CHOOSE i \in DOMAIN errs :
                /\ errs[i] # NoError
                /\ \A j \in 1..(i - 1) : errs[j] = NoError]

(* C7: Build returns the error of the earliest invalid field in the order  *)
(* domainStrategy, fragment.packets, fragment.length, fragment.interval,   *)
(* noise, the noises in list order, redirect; on an error the returned     *)
(* config is nil.                                                          *)
C7_FirstErrorWins ==
    \A k \in Calls :
        /\ rets[k].err = FirstError(FieldErrors)
        /\ rets[k].err # NoError => rets[k].config = <<>>

\* Build has returned the interval error on a configuration whose noise,
\* noises and redirect are invalid too
C7_Witness ==
    /\ rets # <<>> /\ HasFragment
    /\ InFragment.Interval = "" /\ InFragment.Length = "10-20"
    /\ orig.Noise # <<>> /\ orig.Redirect = "bad"
    /\ Len(orig.Noises) = 2
    /\ rets[1].err = "Interval can't be empty" /\ rets[1].config = <<>>

---------------------------------------------------------------------------
(* C8: after Build has returned, every field of the FreedomConfig it was   *)
(* called on, the packet of every entry of noises included, has the value  *)
(* it had before the call.                                                 *)
C8_InputUnchanged == rets # <<>> => c = orig

---------------------------------------------------------------------------
(* C9: successive Build calls on the same configuration object return the  *)
(* same outcome: the same error, or plans equal field for field.           *)
C9_Idempotent ==
    \A i \in Calls : \A j \in Calls : rets[i] = rets[j]

\* Build has been called twice and has built a plan from a noise whose
\* packet the first call trimmed
C9_Witness ==
    /\ Len(rets) >= 2 /\ Built(1) /\ Built(2)
    /\ Len(orig.Noises) = 1 /\ orig.Noises[1].Packet = "  Hello"
    /\ c.Noises[1].Packet = "Hello"
    /\ Plan(2).Noises[1].Packet = <<72, 101, 108, 108, 111>>

---------------------------------------------------------------------------
\* the uint64 u is the integer v
ValueIs(u, v) == u.carry = 0 /\ u.low = v

(* C10: a built noise descriptor has DelayMin = DelayMax = 0 when the      *)
(* entry has no delay and CountMin = CountMax = 1 when it has no count; a  *)
(* delay or a count that is present is copied verbatim.                    *)
C10_DelayCountDefaults ==
    \A k \in Calls :
        Built(k) =>
            \A i \in 1..Len(orig.Noises) :
                LET n == orig.Noises[i]
                    d == Plan(k).Noises[i]
                IN  /\ n.Delay = <<>> => ValueIs(d.DelayMin, 0) /\ ValueIs(d.DelayMax, 0)
                    /\ n.Count = <<>> => ValueIs(d.CountMin, 1) /\ ValueIs(d.CountMax, 1)
                    /\ n.Delay # <<>> => /\ ValueIs(d.DelayMin, n.Delay[1].From)
                                         /\ ValueIs(d.DelayMax, n.Delay[1].To)
                    /\ n.Count # <<>> => /\ ValueIs(d.CountMin, n.Count[1].From)
                                         /\ ValueIs(d.CountMax, n.Count[1].To)

\* the uint64 u is what the conversion of the int32 v gives: v itself when
\* v >= 0, and 2^64 + v when v < 0
ConvertedFrom(u, v) ==
    IF v >= 0 THEN ValueIs(u, v) ELSE u.carry = 1 /\ u.low = v

(* C10 as amended: with no delay DelayMin = DelayMax = 0, with no count    *)
(* CountMin = CountMax = 0 (the default of 1 is not filled in), and a      *)
(* delay or count that is present is converted from int32 to uint64: a     *)
(* bound >= 0 is copied verbatim, a bound v < 0 becomes 2^64 + v.          *)
C10_DelayCountCopied ==
    \A k \in Calls :
        Built(k) =>
            /\ Len(Plan(k).Noises) = Len(orig.Noises)
            /\ \A i \in 1..Len(orig.Noises) :
                LET n == orig.Noises[i]
                    d == Plan(k).Noises[i]
                IN  /\ n.Delay = <<>> => ValueIs(d.DelayMin, 0) /\ ValueIs(d.DelayMax, 0)
                    /\ n.Count = <<>> => ValueIs(d.CountMin, 0) /\ ValueIs(d.CountMax, 0)
                    /\ n.Delay # <<>> => /\ ConvertedFrom(d.DelayMin, n.Delay[1].From)
                                         /\ ConvertedFrom(d.DelayMax, n.Delay[1].To)
                    /\ n.Count # <<>> => /\ ConvertedFrom(d.CountMin, n.Count[1].From)
                                         /\ ConvertedFrom(d.CountMax, n.Count[1].To)

\* a descriptor built from an entry with a delay and no count
C10_Witness ==
    /\ rets # <<>> /\ Built(1) /\ Len(orig.Noises) = 1
    /\ orig.Noises[1].Delay = <<[From |-> 0, To |-> 3]>>
    /\ orig.Noises[1].Count = <<>>
    /\ Plan(1).Noises[1].DelayMin = [carry |-> 0, low |-> 0]
    /\ Plan(1).Noises[1].DelayMax = [carry |-> 0, low |-> 3]
    /\ Plan(1).Noises[1].CountMin = [carry |-> 0, low |-> 0]
    /\ Plan(1).Noises[1].CountMax = [carry |-> 0, low |-> 0]

---------------------------------------------------------------------------
(* C11: proxyProtocol never makes Build fail: Build returns the error it   *)
(* returns for the same configuration with proxyProtocol 0, and a built    *)
(* plan's ProxyProtocol is the input when the input is 0, 1 or 2 and is 0  *)
(* for every other input.                                                  *)
C11_ProxyProtocolLenient ==
    \A k \in Calls :
        /\ rets[k].err = Build([orig EXCEPT !.ProxyProtocol = 0]).err
        /\ Built(k) =>
                Plan(k).ProxyProtocol =
                    (IF orig.ProxyProtocol \in {0, 1, 2} THEN orig.ProxyProtocol ELSE 0)

\* a plan built from proxyProtocol 5, and left at 0
C11_Witness ==
    /\ rets # <<>> /\ Built(1) /\ rets[1].err = NoError
    /\ orig.ProxyProtocol = 5 /\ Plan(1).ProxyProtocol = 0
    /\ orig.Redirect = "example.com:443"

---------------------------------------------------------------------------
\* the configuration holds one noises entry and nothing else that can fail
OnlyNoise ==
    /\ orig.Fragment = <<>> /\ orig.Noise = <<>> /\ orig.Redirect = ""
    /\ ValidStrategy(orig.DomainStrategy) /\ Len(orig.Noises) = 1

CharAt(s, i) == SubSeq(s, i, i)

\* the number of whitespace characters a string starts with and ends with
LeadingSpaces(s) ==
    CHOOSE a \in 0..Len(s) :
        /\ \A i \in 1..a : CharAt(s, i) \in SpaceChars
        /\ a < Len(s) => CharAt(s, a + 1) \notin SpaceChars

TrailingSpaces(s) ==
    CHOOSE b \in 0..Len(s) :
        /\ \A i \in (Len(s) - b + 1)..Len(s) : CharAt(s, i) \in SpaceChars
        /\ b < Len(s) => CharAt(s, Len(s) - b) \notin SpaceChars

\* the literal a packet holds: the packet without the whitespace around it
LiteralOf(s) ==
    IF LeadingSpaces(s) = Len(s) THEN ""
    ELSE SubSeq(s, LeadingSpaces(s) + 1, Len(s) - TrailingSpaces(s))

NoiseType == orig.Noises[1].Type
NoiseLiteral == LiteralOf(orig.Noises[1].Packet)
Payload(k) == Plan(k).Noises[1].Packet

\* the value of a hexadecimal digit of either case, -1 for any other character
HexDigitValue(ch) ==
    IF IndexByte("0123456789abcdef", ch) # 0
    THEN IndexByte("0123456789abcdef", ch) - 1
    ELSE IndexByte("0123456789ABCDEF", ch) - 1

\* bytes is what the pairs of hexadecimal digits of s spell
HexSpells(s, bytes) ==
    /\ Len(s) = 2 * Len(bytes)
    /\ \A j \in 1..Len(bytes) :
            bytes[j] = 16 * HexDigitValue(CharAt(s, 2 * j - 1))
                        + HexDigitValue(CharAt(s, 2 * j))

\* the value of a base64 character of the standard or of the URL-safe
\* alphabet, -1 for any other character
StdAlphabet ==
    "ABCDEFGHIJKLMNOPQRSTUVWXYZabcdefghijklmnopqrstuvwxyz0123456789+/"

Base64Value(ch) ==
    CASE ch = "-" -> 62
      [] ch = "_" -> 63
      [] OTHER -> IndexByte(StdAlphabet, ch) - 1

\* the values of the characters of s, those of skipped left out
RECURSIVE Sextets(_, _)
Sextets(s, skipped) ==
    IF s = "" THEN <<>>
    ELSE (IF Head(s) \in skipped THEN <<>> ELSE <<Base64Value(Head(s))>>)
            \o Sextets(Tail(s), skipped)

\* byte j of the bit string the sextets sx spell, six bits each
SpelledByte(sx, j) ==
    ((64 * sx[(8 * (j - 1)) \div 6 + 1] + sx[(8 * (j - 1)) \div 6 + 2])
        \div (2 ^ (4 - ((8 * (j - 1)) % 6)))) % 256

\* bytes is what the sextets sx spell: every whole byte, spare bits dropped
Base64Spells(sx, bytes) ==
    /\ Len(bytes) = (6 * Len(sx)) \div 8
    /\ \A j \in 1..Len(bytes) : bytes[j] = SpelledByte(sx, j)

\* call k failed with the message msg
FailedWith(k, msg) == Failed(k) /\ rets[k].err = msg

\* a hex literal: the bytes it spells, or a failure on odd length or on a
\* character that is no hexadecimal digit
HexExact(k) ==
    IF Len(NoiseLiteral) % 2 = 0
        /\ \A i \in 1..Len(NoiseLiteral) : HexDigitValue(CharAt(NoiseLiteral, i)) >= 0
    THEN Built(k) /\ HexSpells(NoiseLiteral, Payload(k))
    ELSE FailedWith(k, "Invalid hex string")

\* a str literal: its bytes, one per character
StrVerbatim(k) ==
    /\ Built(k)
    /\ Len(Payload(k)) = Len(NoiseLiteral)
    /\ \A j \in 1..Len(NoiseLiteral) : Payload(k)[j] = ByteOf(CharAt(NoiseLiteral, j))

\* a base64 literal whose characters, those of skipped apart, have the
\* values sx: the bytes they spell in either alphabet, or a failure on any
\* other character
Base64Exact(k, sx) ==
    IF \A i \in 1..Len(sx) : sx[i] >= 0
    THEN Built(k) => Base64Spells(sx, Payload(k))
    ELSE FailedWith(k, "Invalid base64 string")

\* the documented examples
NoiseExamples(k) ==
    /\ NoiseType = "hex" /\ NoiseLiteral = "48656c6c6f" =>
            Built(k) /\ Payload(k) = <<72, 101, 108, 108, 111>>
    /\ NoiseType = "base64" /\ NoiseLiteral \in {"SGVsbG8", "SGVsbG8="} =>
            Built(k) /\ Payload(k) = <<72, 101, 108, 108, 111>>

(* C12: ParseNoise decodes literal payloads exactly: a hex literal gives   *)
(* the bytes it spells and fails on odd length or a non-hex character; a   *)
(* base64 literal gives the same bytes in the standard alphabet (with or   *)
(* without = padding) and in the URL-safe alphabet, and fails on any other *)
(* character; a str literal is taken verbatim after trimming whitespace.   *)
C12_LiteralsExact ==
    OnlyNoise =>
        \A k \in Calls :
            /\ NoiseType = "hex" => HexExact(k)
            /\ NoiseType = "str" => StrVerbatim(k)
            /\ NoiseType = "base64" => Base64Exact(k, Sextets(NoiseLiteral, {"="}))
            /\ NoiseExamples(k)

(* C12 as amended: the same, except that carriage returns and line feeds   *)
(* inside a base64 literal are skipped and do not make it fail, and that a *)
(* base64 literal builds exactly when every remaining character is of one  *)
(* of the two alphabets and their number is not 1 modulo 4.                *)
C12_LiteralsExactSkippingNewlines ==
    OnlyNoise =>
        \A k \in Calls :
            /\ NoiseType = "hex" => HexExact(k)
            /\ NoiseType = "str" => StrVerbatim(k)
            /\ NoiseType = "base64" =>
                /\ Base64Exact(k, Sextets(NoiseLiteral, {"=", "\r", "\n"}))
                /\ Built(k) <=>
                        /\ \A i \in 1..Len(NoiseLiteral) :
                                \/ CharAt(NoiseLiteral, i) \in {"=", "\r", "\n"}
                                \/ Base64Value(CharAt(NoiseLiteral, i)) >= 0
                        /\ Len(Sextets(NoiseLiteral, {"=", "\r", "\n"})) % 4 # 1
            /\ NoiseExamples(k)

\* a padded base64 literal of the standard alphabet has been decoded
C12_Witness ==
    /\ rets # <<>> /\ OnlyNoise /\ Built(1)
    /\ NoiseType = "base64" /\ orig.Noises[1].Packet = "SGVsbG8="
    /\ Payload(1) = <<72, 101, 108, 108, 111>>

---------------------------------------------------------------------------
\* the configuration holds a redirect and nothing else that can fail
OnlyRedirect ==
    /\ orig.Fragment = <<>> /\ orig.Noise = <<>> /\ orig.Noises = <<>>
    /\ ValidStrategy(orig.DomainStrategy)

\* t occurs in s
Contains(s, t) ==
    \E i \in 0..(Len(s) - Len(t)) : SubSeq(s, i + 1, i + Len(t)) = t

\* the positions of the colons of s
Colons(s) == {i \in 1..Len(s) : CharAt(s, i) = ":"}

\* what follows the last colon of s
PortPart(s) == SubSeq(s, (CHOOSE i \in Colons(s) : \A j \in Colons(s) : j <= i) + 1, Len(s))

\* what precedes the only colon of s
HostPart(s) == SubSeq(s, 1, (CHOOSE i \in Colons(s) : TRUE) - 1)

\* a decimal number of 16 bits
IsPort(s) == IsDecimal(s) /\ Len(s) <= 8 /\ DecimalValue(s) <= 65535

\* "host:port" with one colon, a host without brackets and a 16-bit port
IsHostPort(s) ==
    /\ Cardinality(Colons(s)) = 1
    /\ \A i \in 1..Len(s) : CharAt(s, i) \notin {"[", "]"}
    /\ IsPort(PortPart(s))

\* call k failed with an error that embeds the redirect string
FailedNaming(k, redirect) == Failed(k) /\ Contains(rets[k].err, redirect)

(* C13: an empty redirect leaves the plan without destination override;    *)
(* "host:port" with a valid 16-bit port yields an override with that host  *)
(* and port; ":port" yields an override with the port and no host address; *)
(* a redirect without a colon, or whose port is not a valid 16-bit number, *)
(* makes Build fail with an error that embeds the redirect string.         *)
C13_Redirect ==
    OnlyRedirect =>
        \A k \in Calls :
            /\ orig.Redirect = "" =>
                    Built(k) /\ Plan(k).DestinationOverride = <<>>
            /\ orig.Redirect # "" /\ Colons(orig.Redirect) = {} =>
                    FailedNaming(k, orig.Redirect)
            /\ Colons(orig.Redirect) # {} /\ ~IsPort(PortPart(orig.Redirect)) =>
                    FailedNaming(k, orig.Redirect)
            /\ IsHostPort(orig.Redirect) =>
                    /\ Built(k)
                    /\ Len(Plan(k).DestinationOverride) = 1
                    /\ Plan(k).DestinationOverride[1].Port =
                            DecimalValue(PortPart(orig.Redirect))
                    /\ Plan(k).DestinationOverride[1].Address =
                            (IF HostPart(orig.Redirect) = "" THEN <<>>
                             ELSE <<[Address |-> HostPart(orig.Redirect)]>>)

\* a port-only override has been built
C13_Witness ==
    /\ rets # <<>> /\ OnlyRedirect /\ Built(1)
    /\ orig.Redirect = ":443"
    /\ Plan(1).DestinationOverride = <<[Port |-> 443, Address |-> <<>>]>>

---------------------------------------------------------------------------
\* config.json exists in the working directory at startup
DefaultExists == Stat(files0, "config.json")

\* the positions of argv that hold "-c", "--config" or "--config=<path>"
ConfigArgs(argv) ==
    {i \in 1..Len(argv) : argv[i] \in {"-c", "--config"} \/ HasPrefix(argv[i], "--config=")}

\* main has chosen its configuration file and rewritten os.Args
Chosen == pc \in {"check", "proxy", "fragment", "execute", "executed"}

---------------------------------------------------------------------------
\* the file holds a configuration with an outbounds array
HasOutbounds(fs, name) ==
    /\ Stat(fs, name)
    /\ fs[name][1].json # <<>>
    /\ fs[name][1].json[1].outbounds # <<>>

OutboundsOf(fs, name) == fs[name][1].json[1].outbounds[1]

\* the outbounds of before that have tag "fragment"
Tagged(before) == {i \in DOMAIN before : before[i].object /\ before[i].tag = <<"fragment">>}

\* the outbounds of before are those of after, in the same order (their
\* socket options apart)
SameOrder(before, after) ==
    \A i \in DOMAIN before :
        /\ after[i].object = before[i].object
        /\ after[i].tag = before[i].tag
        /\ after[i].protocol = before[i].protocol

\* what modifyOutbounds is to make of the outbounds before, given fragment
AddedOnlyIfMissing(before, after, fragment) ==
    IF Tagged(before) = {}
    THEN /\ Len(after) = Len(before) + 1
         /\ after[Len(after)] = fragment
         /\ SameOrder(before, after)
    ELSE /\ Len(after) = Len(before)
         /\ SameOrder(before, after)

\* a step of processFragmentConfig that saves the configuration
FragmentStep ==
    /\ pc = "fragment" /\ pc' = "execute"
    /\ Stat(files, "fragment.json")

(* C15: modifyOutbounds appends the fragment.json object as the last       *)
(* outbound exactly when no existing outbound has tag "fragment", and      *)
(* otherwise leaves the number and order of the outbounds unchanged;       *)
(* consequently, after any number of runs of processFragmentConfig on a    *)
(* configuration that starts with at most one outbound tagged "fragment",  *)
(* the file holds at most one outbound that came from fragment.json.       *)
C15_FragmentAddedOnce ==
    /\ [][FragmentStep =>
            AddedOnlyIfMissing(OutboundsOf(files, configFilePath),
                               OutboundsOf(files', configFilePath),
                               files["fragment.json"][1].json[1])]_vars
    /\ [](HasOutbounds(files0, "a.json")
            /\ Cardinality(Tagged(OutboundsOf(files0, "a.json"))) <= 1
            => Len(OutboundsOf(files, "a.json"))
                    <= Len(OutboundsOf(files0, "a.json")) + 1)

=============================================================================
